---- MODULE Spec2Model ----
(***************************************************************************)
(* A model of the blog API's persisted store (post/models.py) and of the   *)
(* ordering field (core/fields.py): categories, authors, posts and post     *)
(* sections, each saved through Model.save() = slug derivation, then        *)
(* full_clean(), then the row write with the fields' pre_save hooks.        *)
(***************************************************************************)
EXTENDS Integers, Sequences, FiniteSets, TLC

(* ------------------------------ bounds --------------------------------- *)

\* Rows ever inserted into one table (the primary-key sequence stops here).
MaxPk == 3

\* Largest ordering number a request supplies or the ordering field assigns.
MaxOrder == 2

(* ------------------------------ values --------------------------------- *)

\* Python's None / SQL NULL in an integer column or an unsaved instance's pk.
None == -1

\* Accounts (settings.AUTH_USER_MODEL rows); the user table itself is fixed.
Users == {"u1", "u2"}

\* Texts are sequences of one-character strings; <<>> is '' (and, for a slug
\* handed to save(), also None: both are falsy in "if not self.slug").
\* The names and titles requests carry: "A b" and "b!".
Names == { <<"A", " ", "b">>, <<"b", "!">> }

\* Slugs a request supplies: none, a valid one, one the validator rejects.
SlugInputs == { <<>>, <<"a", "-", "b">>, <<"b", "!">> }

\* Ordering numbers a request supplies: none, or a PositiveIntegerField value.
OrderInputs == {None} \cup (0..MaxOrder)

(* --------------------- django.utils.text.slugify ------------------------ *)

WordChars == {"a", "b", "A", "B", "_"}
SpaceChars == {" "}
SepChars == SpaceChars \cup {"-"}

Lower(c) ==
    CASE c = "A" -> "a"
      [] c = "B" -> "b"
      [] OTHER -> c

RECURSIVE LStrip(_, _)
LStrip(s, chars) ==
    IF s # <<>> /\ Head(s) \in chars THEN LStrip(Tail(s), chars) ELSE s

RECURSIVE RStrip(_, _)
RStrip(s, chars) ==
    IF s # <<>> /\ s[Len(s)] \in chars
    THEN RStrip(SubSeq(s, 1, Len(s) - 1), chars)
    ELSE s

\* re.sub(r"[-\s]+", "-", value)
RECURSIVE CollapseSeparators(_)
CollapseSeparators(s) ==
    IF s = <<>> THEN <<>>
    ELSE IF Head(s) \in SepChars
         THEN <<"-">> \o CollapseSeparators(LStrip(Tail(s), SepChars))
         ELSE <<Head(s)>> \o CollapseSeparators(Tail(s))

\* value.lower(); re.sub(r"[^\w\s-]", "", ...); collapse; .strip("-_")
slugify(value) ==
    LET lowered == [i \in DOMAIN value |-> Lower(value[i])]
        IsKept(c) == c \in WordChars \cup SepChars
        kept == SelectSeq(lowered, IsKept)
    IN  RStrip(LStrip(CollapseSeparators(kept), {"-", "_"}), {"-", "_"})

\* SlugField's validate_slug: ^[-a-zA-Z0-9_]+\Z
validate_slug(s) ==
    s # <<>> /\ \A i \in DOMAIN s : s[i] \in WordChars \cup {"-"}


(* ------------------------------- state ---------------------------------- *)

VARIABLES
    category,   \* rows of Category: [pk, user, name, slug, ordering]
    author,     \* rows of Author:   [pk, user, name, slug]
    post,       \* rows of Post:     [pk, user, name, slug, category, author]
    section,    \* rows of Section:  [pk, user, post, ordering]
    seq,        \* per table, the primary key the next INSERT gets
    last,       \* the latest call and its outcome
    handed,     \* per owner, the rows the ordering field numbered, in sequence
    freed,      \* per owner, the order of the category deleted since the owner's
                \* latest create (None when there is none)
    steps,      \* the steps the latest save() ran, in the order it ran them
    flight,     \* per request worker, the save() it is in the middle of
    tag,        \* rows of Tag:      [pk, user, name]
    tagged,     \* the rows of Tag.post's join table: [tag, post]
    comment     \* rows of Comment:  [pk, user, post, is_visible]

vars == <<category, author, post, section, seq, last, handed, freed, steps, flight,
         tag, tagged, comment>>

Tables == {"Category", "Author", "Post", "Section", "Tag", "Comment"}

\* The processes that serve requests, and a process between two requests.
Workers == {1, 2}
Idle == [stage |-> "idle"]

\* A call's outcome: the ValidationError kinds full_clean() collected (none:
\* the row was written), whether the ordering was left to the field, and
\* whether any persisted row changed.
Outcome(op, table, errors, auto, changed) ==
    [op |-> op, table |-> table, errors |-> errors, auto |-> auto, changed |-> changed]

Init ==
    /\ category = {}
    /\ author = {}
    /\ post = {}
    /\ section = {}
    /\ seq = [t \in Tables |-> 1]
    /\ last = Outcome("none", "none", {}, FALSE, FALSE)
    /\ handed = [u \in Users |-> <<>>]
    /\ freed = [u \in Users |-> None]
    /\ steps = <<>>
    /\ flight = [w \in Workers |-> Idle]
    /\ tag = {}
    /\ tagged = {}
    /\ comment = {}

(* ----------------------------- queries ---------------------------------- *)

Row(objects, pk) == CHOOSE r \in objects : r.pk = pk

\* QuerySet.earliest(attname): the row with the least value of the column.
earliest(qs) == CHOOSE r \in qs : \A q \in qs : r.ordering <= q.ordering

\* QuerySet.latest(attname): the row with the greatest value of the column.
latest(qs) == CHOOSE r \in qs : \A q \in qs : q.ordering <= r.ordering

(* -------------------------- core/fields.py ------------------------------ *)

\* The ordering taken from the number of rows the scope holds.
pre_save_scope_count(objects, instance, unique_to) ==
    IF instance.ordering = None
    THEN Cardinality({r \in objects : r[unique_to] = instance[unique_to]}) + 1
    ELSE instance.ordering

\* The ordering taken from the number of rows instead of the greatest value.
pre_save_count(objects, instance, unique_to) ==
    IF instance.ordering = None
    THEN Cardinality(objects) + 1
    ELSE instance.ordering

\* OrderField.pre_save: the value the column is written with.  The queryset
\* narrowed to the instance's unique_to value is built and dropped (line 58);
\* latest() runs on the unfiltered queryset of the model.
pre_save(objects, instance, unique_to) ==
    IF instance.ordering = None
    THEN LET qs == objects
             filtered == {r \in qs : r[unique_to] = instance[unique_to]}
         IN  IF qs = {} THEN 1 ELSE latest(qs).ordering + 1
    ELSE instance.ordering

(* ----------------------------- Category --------------------------------- *)

\* Model.clean_fields: a blank name, a slug the slug validator rejects (blank
\* columns that may be blank are skipped).
clean_fields(instance) ==
    \/ instance.name = <<>>
    \/ instance.slug # <<>> /\ ~validate_slug(instance.slug)

\* The uniqueness checks run over the categories of every user.
CategoryCleanAnyUser(instance) ==
    IF \E c \in category : c.slug = instance.slug /\ c.pk # instance.pk
    THEN {"slug"}
    ELSE IF \E c \in category : c.ordering = instance.ordering /\ c.pk # instance.pk
         THEN {"ordering"}
         ELSE {}

\* The ordering lookup with a missing value matching every row of the user.
CategoryCleanNoneClashes(instance) ==
    IF \E c \in category :
          c.user = instance.user /\ c.slug = instance.slug /\ c.pk # instance.pk
    THEN {"slug"}
    ELSE IF \E c \in category :
               /\ c.user = instance.user
               /\ (c.ordering = instance.ordering \/ instance.ordering = None)
               /\ c.pk # instance.pk
         THEN {"ordering"}
         ELSE {}

\* The two uniqueness checks in the other order.
CategoryCleanOrderFirst(instance) ==
    IF \E c \in category :
          c.user = instance.user /\ c.ordering = instance.ordering /\ c.pk # instance.pk
    THEN {"ordering"}
    ELSE IF \E c \in category :
               c.user = instance.user /\ c.slug = instance.slug /\ c.pk # instance.pk
         THEN {"slug"}
         ELSE {}

\* Category.clean: the first uniqueness check that fails raises.
CategoryClean(instance) ==
    IF \E c \in category :
          c.user = instance.user /\ c.slug = instance.slug /\ c.pk # instance.pk
    THEN {"slug"}
    ELSE IF \E c \in category :
               /\ c.user = instance.user
               /\ c.ordering = instance.ordering
               /\ c.pk # instance.pk
         THEN {"ordering"}
         ELSE {}

\* The uniqueness checks without .exclude(pk=self.pk).
CategoryFullCleanWithSelf(instance) ==
    (IF clean_fields(instance) THEN {"fields"} ELSE {})
        \cup CategoryClean([instance EXCEPT !.pk = None])

\* Model.full_clean: the errors of clean_fields and of clean, collected.
CategoryFullClean(instance) ==
    (IF clean_fields(instance) THEN {"fields"} ELSE {}) \cup CategoryClean(instance)

\* save() before full_clean: a falsy slug is derived from the name.
WithSlug(instance) ==
    IF instance.slug = <<>>
    THEN [instance EXCEPT !.slug = slugify(instance.name)]
    ELSE instance

\* full_clean() called before the slug is derived.
CategorySaveCleanFirst(instance) ==
    LET errors == CategoryFullClean(instance)
        prepared == WithSlug(instance)
    IN  [errors |-> errors,
         row |-> IF errors = {}
                 THEN [prepared EXCEPT !.ordering = pre_save(category, prepared, "user")]
                 ELSE prepared]

\* Category.save: the errors raised, or the row super().save() writes with the
\* ordering column's pre_save value.
CategorySave(instance) ==
    LET prepared == WithSlug(instance)
        errors == CategoryFullClean(prepared)
    IN  [errors |-> errors,
         row |-> IF errors = {}
                 THEN [prepared EXCEPT !.ordering = pre_save(category, prepared, "user")]
                 ELSE prepared]

\* Category.objects.create(user=u, name=n, slug=s, ordering=o)
CategoryCreate(u, n, s, o) ==
    LET pk == seq["Category"]
        saved == CategorySave([pk |-> None, user |-> u, name |-> n, slug |-> s, ordering |-> o])
    IN  /\ pk <= MaxPk
        /\ saved.row.ordering <= MaxOrder
        /\ IF saved.errors = {}
           THEN /\ category' = category \cup {[saved.row EXCEPT !.pk = pk]}
                /\ seq' = [seq EXCEPT !["Category"] = pk + 1]
           ELSE UNCHANGED <<category, seq>>
        /\ last' = Outcome("create", "Category", saved.errors, o = None, saved.errors = {})
        /\ UNCHANGED <<author, post, section>>

\* An existing category loaded, its name, slug and ordering set, then save().
CategoryUpdate(pk, n, s, o) ==
    /\ \E c \in category : c.pk = pk
    /\ LET old == Row(category, pk)
           saved == CategorySave([old EXCEPT !.name = n, !.slug = s, !.ordering = o])
       IN  /\ saved.row.ordering <= MaxOrder
           /\ IF saved.errors = {}
              THEN category' = (category \ {old}) \cup {saved.row}
              ELSE UNCHANGED category
           /\ last' = Outcome("update", "Category", saved.errors, o = None,
                              saved.errors = {} /\ saved.row # old)
    /\ UNCHANGED <<author, post, section, seq>>

\* category.delete(): the row and, by on_delete=CASCADE, the posts filed under
\* it with their sections.
CategoryDelete(pk) ==
    /\ \E c \in category : c.pk = pk
    /\ LET gone == {p.pk : p \in {q \in post : q.category = pk}}
       IN  /\ category' = {c \in category : c.pk # pk}
           /\ post' = {p \in post : p.pk \notin gone}
           /\ section' = {s \in section : s.post \notin gone}
    /\ last' = Outcome("delete", "Category", {}, FALSE, TRUE)
    /\ UNCHANGED <<author, seq>>

(* ------------------------------ Author ---------------------------------- *)

\* Author.clean
AuthorClean(instance) ==
    IF \E a \in author :
          a.user = instance.user /\ a.slug = instance.slug /\ a.pk # instance.pk
    THEN {"slug"}
    ELSE {}

AuthorFullClean(instance) ==
    (IF clean_fields(instance) THEN {"fields"} ELSE {}) \cup AuthorClean(instance)

\* Author.save
AuthorSave(instance) ==
    LET prepared == WithSlug(instance)
    IN  [errors |-> AuthorFullClean(prepared), row |-> prepared]

\* Author.objects.create(user=u, name=n, slug=s)
AuthorCreate(u, n, s) ==
    LET pk == seq["Author"]
        saved == AuthorSave([pk |-> None, user |-> u, name |-> n, slug |-> s])
    IN  /\ pk <= MaxPk
        /\ IF saved.errors = {}
           THEN /\ author' = author \cup {[saved.row EXCEPT !.pk = pk]}
                /\ seq' = [seq EXCEPT !["Author"] = pk + 1]
           ELSE UNCHANGED <<author, seq>>
        /\ last' = Outcome("create", "Author", saved.errors, FALSE, saved.errors = {})
        /\ UNCHANGED <<category, post, section>>

\* An existing author loaded, its name and slug set, then save().
AuthorUpdate(pk, n, s) ==
    /\ \E a \in author : a.pk = pk
    /\ LET old == Row(author, pk)
           saved == AuthorSave([old EXCEPT !.name = n, !.slug = s])
       IN  /\ IF saved.errors = {}
              THEN author' = (author \ {old}) \cup {saved.row}
              ELSE UNCHANGED author
           /\ last' = Outcome("update", "Author", saved.errors, FALSE,
                              saved.errors = {} /\ saved.row # old)
    /\ UNCHANGED <<category, post, section, seq>>

\* author.delete(), with the posts of the author and their sections.
AuthorDelete(pk) ==
    /\ \E a \in author : a.pk = pk
    /\ LET gone == {p.pk : p \in {q \in post : q.author = pk}}
       IN  /\ author' = {a \in author : a.pk # pk}
           /\ post' = {p \in post : p.pk \notin gone}
           /\ section' = {s \in section : s.post \notin gone}
    /\ last' = Outcome("delete", "Author", {}, FALSE, TRUE)
    /\ UNCHANGED <<category, seq>>

(* ------------------------------- Post ----------------------------------- *)

\* The slug looked up for new posts only.
PostCleanOnCreate(instance) ==
    IF instance.pk = None /\ \E p \in post : p.user = instance.user /\ p.slug = instance.slug
    THEN {"slug"}
    ELSE {}

\* Post.clean
PostClean(instance) ==
    IF \E p \in post :
          p.user = instance.user /\ p.slug = instance.slug /\ p.pk # instance.pk
    THEN {"slug"}
    ELSE {}

\* clean_fields also looks the foreign keys up.
PostFullClean(instance) ==
    (IF \/ clean_fields(instance)
        \/ instance.category # None /\ ~\E c \in category : c.pk = instance.category
        \/ instance.author # None /\ ~\E a \in author : a.pk = instance.author
     THEN {"fields"} ELSE {}) \cup PostClean(instance)

\* Post.save (the title is the post's name column)
PostSave(instance) ==
    LET prepared == WithSlug(instance)
    IN  [errors |-> PostFullClean(prepared), row |-> prepared]

\* Post.objects.create(user=u, title=n, slug=s, category=c, author=a)
PostCreate(u, n, s, c, a) ==
    LET pk == seq["Post"]
        saved == PostSave([pk |-> None, user |-> u, name |-> n, slug |-> s,
                           category |-> c, author |-> a])
    IN  /\ pk <= MaxPk
        /\ IF saved.errors = {}
           THEN /\ post' = post \cup {[saved.row EXCEPT !.pk = pk]}
                /\ seq' = [seq EXCEPT !["Post"] = pk + 1]
           ELSE UNCHANGED <<post, seq>>
        /\ last' = Outcome("create", "Post", saved.errors, FALSE, saved.errors = {})
        /\ UNCHANGED <<category, author, section>>

\* An existing post loaded, its title and slug set, then save().
PostUpdate(pk, n, s) ==
    /\ \E p \in post : p.pk = pk
    /\ LET old == Row(post, pk)
           saved == PostSave([old EXCEPT !.name = n, !.slug = s])
       IN  /\ IF saved.errors = {}
              THEN post' = (post \ {old}) \cup {saved.row}
              ELSE UNCHANGED post
           /\ last' = Outcome("update", "Post", saved.errors, FALSE,
                              saved.errors = {} /\ saved.row # old)
    /\ UNCHANGED <<category, author, section, seq>>

\* post.delete(), with its sections.
PostDelete(pk) ==
    /\ \E p \in post : p.pk = pk
    /\ post' = {p \in post : p.pk # pk}
    /\ section' = {s \in section : s.post # pk}
    /\ last' = Outcome("delete", "Post", {}, FALSE, TRUE)
    /\ UNCHANGED <<category, author, seq>>

(* ------------------------------ Section --------------------------------- *)

\* Section.clean over the rows the table holds at the time of the call: the
\* ordering is looked up among the sections of the instance's user.
SectionCleanOn(objects, instance) ==
    IF \E s \in objects :
          /\ s.user = instance.user
          /\ s.ordering = instance.ordering
          /\ s.pk # instance.pk
    THEN {"ordering"}
    ELSE {}

SectionClean(instance) == SectionCleanOn(section, instance)

\* clean_fields looks the post up.
SectionFullCleanOn(posts, objects, instance) ==
    (IF ~\E p \in posts : p.pk = instance.post THEN {"fields"} ELSE {})
        \cup SectionCleanOn(objects, instance)

SectionFullClean(instance) == SectionFullCleanOn(post, section, instance)

\* Section.save
SectionSaveOn(posts, objects, instance) ==
    LET errors == SectionFullCleanOn(posts, objects, instance)
    IN  [errors |-> errors,
         row |-> IF errors = {}
                 THEN [instance EXCEPT !.ordering = pre_save(objects, instance, "post")]
                 ELSE instance]

SectionSave(instance) == SectionSaveOn(post, section, instance)

\* Sections are the larger rows; their primary keys stop one earlier.
MaxSectionPk == MaxPk - 1

\* Section.objects.create(user=u, post=p, ordering=o)
SectionCreate(u, p, o) ==
    LET pk == seq["Section"]
        saved == SectionSave([pk |-> None, user |-> u, post |-> p, ordering |-> o])
    IN  /\ pk <= MaxSectionPk
        /\ saved.row.ordering <= MaxOrder
        /\ IF saved.errors = {}
           THEN /\ section' = section \cup {[saved.row EXCEPT !.pk = pk]}
                /\ seq' = [seq EXCEPT !["Section"] = pk + 1]
           ELSE UNCHANGED <<section, seq>>
        /\ last' = Outcome("create", "Section", saved.errors, o = None, saved.errors = {})
        /\ UNCHANGED <<category, author, post>>

\* The row written whatever full_clean() raised.
SectionUpdateUnchecked(pk, o) ==
    /\ \E s \in section : s.pk = pk
    /\ LET old == Row(section, pk)
           saved == SectionSave([old EXCEPT !.ordering = o])
       IN  /\ saved.row.ordering <= MaxOrder
           /\ section' = (section \ {old}) \cup {saved.row}
           /\ last' = Outcome("update", "Section", saved.errors, o = None,
                              saved.errors = {} /\ saved.row # old)
    /\ UNCHANGED <<category, author, post, seq>>

\* An existing section loaded, its ordering set, then save().
SectionUpdate(pk, o) ==
    /\ \E s \in section : s.pk = pk
    /\ LET old == Row(section, pk)
           saved == SectionSave([old EXCEPT !.ordering = o])
       IN  /\ saved.row.ordering <= MaxOrder
           /\ IF saved.errors = {}
              THEN section' = (section \ {old}) \cup {saved.row}
              ELSE UNCHANGED section
           /\ last' = Outcome("update", "Section", saved.errors, o = None,
                              saved.errors = {} /\ saved.row # old)
    /\ UNCHANGED <<category, author, post, seq>>

\* section.delete()
SectionDelete(pk) ==
    /\ \E s \in section : s.pk = pk
    /\ section' = {s \in section : s.pk # pk}
    /\ last' = Outcome("delete", "Section", {}, FALSE, TRUE)
    /\ UNCHANGED <<category, author, post, seq>>

(* ------------------- the categories of two accounts ---------------------- *)

\* Requests on categories: a create names the category and leaves the slug to
\* save(); an update sets the ordering alone, or renames and lets the slug
\* follow the name.
CreateCategory ==
    /\ \E u \in Users, n \in Names, o \in OrderInputs : CategoryCreate(u, n, <<>>, o)
    /\ UNCHANGED <<handed, freed, steps, flight, tag, tagged, comment>>

ReorderCategory ==
    /\ \E c \in category, o \in OrderInputs : CategoryUpdate(c.pk, c.name, c.slug, o)
    /\ UNCHANGED <<handed, freed, steps, flight, tag, tagged, comment>>

RenameCategory ==
    /\ \E c \in category, n \in Names : CategoryUpdate(c.pk, n, <<>>, c.ordering)
    /\ UNCHANGED <<handed, freed, steps, flight, tag, tagged, comment>>

DeleteCategory ==
    /\ \E c \in category : CategoryDelete(c.pk)
    /\ UNCHANGED <<handed, freed, steps, flight, tag, tagged, comment>>

NextCategory == CreateCategory \/ ReorderCategory \/ RenameCategory \/ DeleteCategory

SpecCategory == Init /\ [][NextCategory]_vars

(* ------------------- the sections of two posts --------------------------- *)

\* The store once u1 has created the posts "A b" and "b!".
TwoPosts ==
    { [pk |-> 1, user |-> "u1", name |-> <<"A", " ", "b">>, slug |-> <<"a", "-", "b">>,
       category |-> None, author |-> None],
      [pk |-> 2, user |-> "u1", name |-> <<"b", "!">>, slug |-> <<"b">>,
       category |-> None, author |-> None] }

InitSection ==
    /\ category = {}
    /\ author = {}
    /\ post = TwoPosts
    /\ section = {}
    /\ seq = [t \in Tables |-> IF t = "Post" THEN 3 ELSE 1]
    /\ last = Outcome("create", "Post", {}, FALSE, TRUE)
    /\ handed = [u \in Users |-> <<>>]
    /\ freed = [u \in Users |-> None]
    /\ steps = <<>>
    /\ flight = [w \in Workers |-> Idle]
    /\ tag = {}
    /\ tagged = {}
    /\ comment = {}

\* Requests on sections: the admin's inline, or Section.objects.create, files
\* a section of any post under any user.
CreateSection ==
    /\ \E u \in Users, p \in post, o \in OrderInputs : SectionCreate(u, p.pk, o)
    /\ UNCHANGED <<handed, freed, steps, flight, tag, tagged, comment>>

ReorderSection ==
    /\ \E s \in section, o \in OrderInputs : SectionUpdate(s.pk, o)
    /\ UNCHANGED <<handed, freed, steps, flight, tag, tagged, comment>>

DeleteSection ==
    /\ \E s \in section : SectionDelete(s.pk)
    /\ UNCHANGED <<handed, freed, steps, flight, tag, tagged, comment>>

NextSection == CreateSection \/ ReorderSection \/ DeleteSection

SpecSection == InitSection /\ [][NextSection]_vars

(* -------------- the slugs of categories, authors and posts --------------- *)

\* The three tables are filled one at a time: each clean() reads its own.
Alone(table) ==
    \A t \in {"Category", "Author", "Post"} \ {table} : seq[t] = 1

CreateSlugged ==
    /\ \E u \in Users, n \in Names, s \in SlugInputs :
          \/ Alone("Category") /\ \E o \in {None, 1} : CategoryCreate(u, n, s, o)
          \/ Alone("Author") /\ AuthorCreate(u, n, s)
          \/ Alone("Post") /\ PostCreate(u, n, s, None, None)
    /\ UNCHANGED <<handed, freed, steps, flight, tag, tagged, comment>>

UpdateSlugged ==
    /\ \E n \in Names :
          \/ \E c \in category : \E s \in SlugInputs \cup {c.slug} :
                CategoryUpdate(c.pk, n, s, c.ordering)
          \/ \E a \in author : \E s \in SlugInputs \cup {a.slug} : AuthorUpdate(a.pk, n, s)
          \/ \E p \in post : \E s \in SlugInputs \cup {p.slug} : PostUpdate(p.pk, n, s)
    /\ UNCHANGED <<handed, freed, steps, flight, tag, tagged, comment>>

DeleteSlugged ==
    /\ \/ \E c \in category : CategoryDelete(c.pk)
       \/ \E a \in author : AuthorDelete(a.pk)
       \/ \E p \in post : PostDelete(p.pk)
    /\ UNCHANGED <<handed, freed, steps, flight, tag, tagged, comment>>

NextSlug == CreateSlugged \/ UpdateSlugged \/ DeleteSlugged

SpecSlug == Init /\ [][NextSlug]_vars

(* ------------- the orders handed out to two accounts --------------------- *)

\* Categories created with the order left to the field, and deleted; every
\* row the field numbered is noted under its owner.
AssignCategory ==
    \E u \in Users, n \in Names :
        /\ CategoryCreate(u, n, <<>>, None)
        /\ handed' = [handed EXCEPT ![u] =
                         @ \o [i \in 1..Cardinality(category' \ category) |->
                                  LET r == CHOOSE x \in category' \ category : TRUE
                                  IN  [pk |-> r.pk, ordering |-> r.ordering]]]
        /\ UNCHANGED <<freed, steps, flight, tag, tagged, comment>>

RemoveCategory ==
    /\ \E c \in category : CategoryDelete(c.pk)
    /\ UNCHANGED <<handed, freed, steps, flight, tag, tagged, comment>>

NextHandout == AssignCategory \/ RemoveCategory

SpecHandout == Init /\ [][NextHandout]_vars

(* ------------- creates that follow a delete in the scope ----------------- *)

\* Categories created and deleted by two accounts; a delete notes the order it
\* freed under the owner, the owner's next create clears the note.
CreateAfter ==
    \E u \in Users, n \in Names, o \in OrderInputs :
        /\ CategoryCreate(u, n, <<>>, o)
        /\ freed' = IF last'.errors = {} THEN [freed EXCEPT ![u] = None] ELSE freed
        /\ UNCHANGED <<handed, steps, flight, tag, tagged, comment>>

DeleteBefore ==
    \E c \in category :
        /\ CategoryDelete(c.pk)
        /\ freed' = [freed EXCEPT ![c.user] = c.ordering]
        /\ UNCHANGED <<handed, steps, flight, tag, tagged, comment>>

NextGap == CreateAfter \/ DeleteBefore

SpecGap == Init /\ [][NextGap]_vars

(* -------------------- the steps of one save() ---------------------------- *)

\* Category.save, step by step: the slug derived when falsy; full_clean() with
\* clean_fields and the two queries of clean() (the second is not reached when
\* the first raises); then, when nothing was raised, super().save(), where the
\* ordering column's pre_save fills a missing value and the row is written.
CategorySaveSteps(instance) ==
    LET prepared == WithSlug(instance)
    IN  (IF instance.slug = <<>> THEN <<"derive_slug">> ELSE <<>>)
        \o <<"clean_fields", "check_slug">>
        \o (IF "slug" \in CategoryClean(prepared) THEN <<>> ELSE <<"check_ordering">>)
        \o (IF CategoryFullClean(prepared) # {}
            THEN <<>>
            ELSE (IF prepared.ordering = None THEN <<"assign_ordering">> ELSE <<>>)
                 \o <<"persist">>)

\* Section.save, step by step: full_clean(), then super().save().
SectionSaveSteps(instance) ==
    <<"clean_fields", "check_ordering">>
    \o (IF SectionFullClean(instance) # {}
        THEN <<>>
        ELSE (IF instance.ordering = None THEN <<"assign_ordering">> ELSE <<>>)
             \o <<"persist">>)

\* Creates and updates of categories and of the sections of two posts, each
\* noting the steps its save() ran.
StepCreateCategory ==
    \E u \in Users, n \in Names, o \in {None, 1} :
        /\ CategoryCreate(u, n, <<>>, o)
        /\ steps' = CategorySaveSteps([pk |-> None, user |-> u, name |-> n,
                                       slug |-> <<>>, ordering |-> o])
        /\ UNCHANGED <<handed, freed, flight, tag, tagged, comment>>

StepUpdateCategory ==
    \E c \in category, o \in {None, 1, 2} :
        /\ CategoryUpdate(c.pk, c.name, c.slug, o)
        /\ steps' = CategorySaveSteps([c EXCEPT !.ordering = o])
        /\ UNCHANGED <<handed, freed, flight, tag, tagged, comment>>

StepCreateSection ==
    \E u \in Users, p \in post, o \in {None, 1} :
        /\ SectionCreate(u, p.pk, o)
        /\ steps' = SectionSaveSteps([pk |-> None, user |-> u, post |-> p.pk,
                                      ordering |-> o])
        /\ UNCHANGED <<handed, freed, flight, tag, tagged, comment>>

StepUpdateSection ==
    \E s \in section, o \in {None, 1, 2} :
        /\ SectionUpdate(s.pk, o)
        /\ steps' = SectionSaveSteps([s EXCEPT !.ordering = o])
        /\ UNCHANGED <<handed, freed, flight, tag, tagged, comment>>

NextSteps ==
    StepCreateCategory \/ StepUpdateCategory \/ StepCreateSection \/ StepUpdateSection

SpecSteps == InitSection /\ [][NextSteps]_vars

(* ---------------- two requests saving at the same time ------------------- *)

\* The requests in the middle of a save().
InFlight == {w \in Workers : flight[w] # Idle}

\* A worker enters Category.save of a new instance: the slug is derived and
\* full_clean() runs its queries against the rows persisted at this moment.
\* A ValidationError ends the request; otherwise super().save() is next.
BeginSave(w) ==
    \E u \in Users, n \in Names, o \in {None, 1} :
        LET prepared == WithSlug([pk |-> None, user |-> u, name |-> n,
                                  slug |-> <<>>, ordering |-> o])
            errors == CategoryFullClean(prepared)
        IN  /\ flight[w] = Idle
            /\ seq["Category"] + Cardinality(InFlight) <= MaxPk
            /\ IF errors = {}
               THEN /\ flight' = [flight EXCEPT ![w] =
                                    [stage |-> "cleaned", instance |-> prepared,
                                     auto |-> o = None]]
                    /\ UNCHANGED last
               ELSE /\ last' = Outcome("create", "Category", errors, o = None, FALSE)
                    /\ UNCHANGED flight
            /\ UNCHANGED <<category, author, post, section, seq, handed, freed, steps, tag, tagged, comment>>

\* super().save() collects the column values: OrderField.pre_save runs its
\* query against the rows persisted at this moment.
PreSave(w) ==
    /\ flight[w] # Idle
    /\ flight[w].stage = "cleaned"
    /\ LET value == pre_save(category, flight[w].instance, "user")
       IN  /\ value <= MaxOrder
           /\ flight' = [flight EXCEPT ![w] =
                           [@ EXCEPT !.stage = "assigned", !.instance.ordering = value]]
    /\ UNCHANGED <<category, author, post, section, seq, last, handed, freed, steps, tag, tagged, comment>>

\* The INSERT.  The table has no unique constraint or index beside its primary
\* key (migrations/0001_initial.py), so the storage accepts every row.
Insert(w) ==
    /\ flight[w] # Idle
    /\ flight[w].stage = "assigned"
    /\ LET pk == seq["Category"]
       IN  /\ category' = category \cup {[flight[w].instance EXCEPT !.pk = pk]}
           /\ seq' = [seq EXCEPT !["Category"] = pk + 1]
    /\ last' = Outcome("create", "Category", {}, flight[w].auto, TRUE)
    /\ flight' = [flight EXCEPT ![w] = Idle]
    /\ UNCHANGED <<author, post, section, handed, freed, steps, tag, tagged, comment>>

NextRace == \E w \in Workers : BeginSave(w) \/ PreSave(w) \/ Insert(w)

SpecRace == Init /\ [][NextRace]_vars

(* ---------------- saves of the four models, accepted or not -------------- *)

\* Creates and updates of categories, authors, posts and the sections of the
\* posts, with names that collide and orders that collide; categories, authors
\* and sections are filled one table in a run.
SaveCategory ==
    /\ author = {} /\ section = {}
    /\ \/ \E u \in Users, n \in Names, o \in {None, 1} : CategoryCreate(u, n, <<>>, o)
       \/ \E c \in category, n \in Names, o \in {1, 2} : CategoryUpdate(c.pk, n, <<>>, o)
    /\ UNCHANGED <<handed, freed, steps, flight, tag, tagged, comment>>

SaveAuthor ==
    /\ category = {} /\ section = {}
    /\ \/ \E u \in Users, n \in Names : AuthorCreate(u, n, <<>>)
       \/ \E a \in author, n \in Names : AuthorUpdate(a.pk, n, <<>>)
    /\ UNCHANGED <<handed, freed, steps, flight, tag, tagged, comment>>

SavePost ==
    /\ category = {} /\ author = {} /\ section = {}
    /\ \/ \E u \in Users, n \in Names : PostCreate(u, n, <<>>, None, None)
       \/ \E p \in post, n \in Names : PostUpdate(p.pk, n, <<>>)
    /\ UNCHANGED <<handed, freed, steps, flight, tag, tagged, comment>>

SaveSection ==
    /\ category = {} /\ author = {}
    /\ \/ \E u \in Users, p \in post, o \in {None, 1} : SectionCreate(u, p.pk, o)
       \/ \E s \in section, o \in {1, 2} : SectionUpdate(s.pk, o)
    /\ UNCHANGED <<handed, freed, steps, flight, tag, tagged, comment>>

NextSaves == SaveCategory \/ SaveAuthor \/ SavePost \/ SaveSection

SpecSaves == InitSection /\ [][NextSaves]_vars

(* ------------- creates and deletes that leave gaps in a scope ------------ *)

\* Categories of two accounts, or sections of the two posts, created with and
\* without an explicit order and deleted again.
FreshCategory ==
    /\ section = {}
    /\ \E u \in Users, n \in Names, o \in OrderInputs : CategoryCreate(u, n, <<>>, o)
    /\ UNCHANGED <<handed, freed, steps, flight, tag, tagged, comment>>

DropCategory ==
    /\ \E c \in category : CategoryDelete(c.pk)
    /\ UNCHANGED <<handed, freed, steps, flight, tag, tagged, comment>>

FreshSection ==
    /\ category = {}
    /\ \E u \in Users, p \in post, o \in OrderInputs : SectionCreate(u, p.pk, o)
    /\ UNCHANGED <<handed, freed, steps, flight, tag, tagged, comment>>

DropSection ==
    /\ \E s \in section : SectionDelete(s.pk)
    /\ UNCHANGED <<handed, freed, steps, flight, tag, tagged, comment>>

NextFresh == FreshCategory \/ DropCategory \/ FreshSection \/ DropSection

SpecFresh == InitSection /\ [][NextFresh]_vars

(* ------------------- tags, and the post serializer ----------------------- *)

TagNames == {"t1", "t2"}

\* The tags lists and the sections lists (each section by its ordering) a post
\* request carries.
TagLists ==
    {<<a>> : a \in TagNames} \cup {<<a, b>> : a \in TagNames, b \in TagNames}

SectionLists ==
    LET orders == {None} \cup (1..MaxOrder)
    IN  {<<a>> : a \in orders} \cup {<<a, b>> : a \in orders, b \in orders}

\* The tables a serializer call reads and writes, statement by statement, and
\* the exception that ended it (none: it ran to its end).
Database ==
    [post |-> post, section |-> section, tag |-> tag, tagged |-> tagged,
     seq |-> seq, errors |-> {}]

\* Tag.objects.create(user=u, name=n): the model has no clean() and no save().
TagCreate(u, n) ==
    LET pk == seq["Tag"]
    IN  /\ pk <= MaxPk
        /\ tag' = tag \cup {[pk |-> pk, user |-> u, name |-> n]}
        /\ seq' = [seq EXCEPT !["Tag"] = pk + 1]
        /\ last' = Outcome("create", "Tag", {}, FALSE, TRUE)
        /\ UNCHANGED <<category, author, post, section, tagged, comment>>

\* A tag of the requester renamed.
TagUpdate(u, pk, n) ==
    /\ \E t \in tag : t.pk = pk /\ t.user = u
    /\ LET old == Row(tag, pk)
       IN  /\ tag' = (tag \ {old}) \cup {[old EXCEPT !.name = n]}
           /\ last' = Outcome("update", "Tag", {}, FALSE, old.name # n)
    /\ UNCHANGED <<category, author, post, section, seq, tagged, comment>>

\* A tag of the requester deleted, with its rows of the join table.
TagDelete(u, pk) ==
    /\ \E t \in tag : t.pk = pk /\ t.user = u
    /\ tag' = {t \in tag : t.pk # pk}
    /\ tagged' = {l \in tagged : l.tag # pk}
    /\ last' = Outcome("delete", "Tag", {}, FALSE, TRUE)
    /\ UNCHANGED <<category, author, post, section, seq, comment>>

\* Tag.objects.get_or_create(user=u, name=n): the one row that matches, a new
\* row when none does, MultipleObjectsReturned when several do.
get_or_create(db, u, n) ==
    LET found == {t \in db.tag : t.user = u /\ t.name = n}
    IN  IF Cardinality(found) > 1
        THEN [obj |-> None, created |-> FALSE, errors |-> {"MultipleObjectsReturned"}]
        ELSE IF found = {}
             THEN [obj |-> [pk |-> db.seq["Tag"], user |-> u, name |-> n],
                   created |-> TRUE, errors |-> {}]
             ELSE [obj |-> CHOOSE t \in found : TRUE, created |-> FALSE, errors |-> {}]

\* The loop of _assign_tags: each tag fetched or created, then linked.
RECURSIVE add_tags(_, _, _, _)
add_tags(db, u, p, names) ==
    IF names = <<>>
    THEN db
    ELSE LET got == get_or_create(db, u, Head(names))
         IN  IF got.errors # {}
             THEN [db EXCEPT !.errors = got.errors]
             ELSE add_tags([db EXCEPT !.tag = @ \cup {got.obj},
                                      !.tagged = @ \cup {[tag |-> got.obj.pk, post |-> p]},
                                      !.seq = IF got.created
                                              THEN [@ EXCEPT !["Tag"] = @ + 1]
                                              ELSE @],
                           u, p, Tail(names))

\* PostSerializer._assign_tags: the post's links cleared, then the loop.
assign_tags(db, u, p, names) ==
    add_tags([db EXCEPT !.tagged = {l \in @ : l.post # p}], u, p, names)

\* The loop of _create_post_sections: Section.objects.create for each entry,
\* under the requester; the first save() that raises ends it.
RECURSIVE add_sections(_, _, _, _)
add_sections(db, u, p, orders) ==
    IF orders = <<>>
    THEN db
    ELSE LET saved == SectionSaveOn(db.post, db.section,
                          [pk |-> None, user |-> u, post |-> p, ordering |-> Head(orders)])
         IN  IF saved.errors # {}
             THEN [db EXCEPT !.errors = saved.errors]
             ELSE add_sections([db EXCEPT !.section = @ \cup {[saved.row EXCEPT
                                                                   !.pk = db.seq["Section"]]},
                                          !.seq = [@ EXCEPT !["Section"] = @ + 1]],
                               u, p, Tail(orders))

\* PostSerializer._create_post_sections: the post's sections deleted one by
\* one, then the loop.
create_post_sections(db, u, p, orders) ==
    add_sections([db EXCEPT !.section = {s \in @ : s.post # p}], u, p, orders)

\* PostSerializer._assign_parameters (category and author not passed): the
\* sections when the list is not empty, then the tags when the list is not
\* empty, then post.save(); an exception ends the call where it is raised,
\* with what was written before it.
assign_parameters(db, u, p, orders, names) ==
    LET sectioned == IF orders # <<>> THEN create_post_sections(db, u, p, orders) ELSE db
        labelled == IF sectioned.errors = {} /\ names # <<>>
                    THEN assign_tags(sectioned, u, p, names)
                    ELSE sectioned
    IN  IF labelled.errors = {}
        THEN [labelled EXCEPT !.errors = PostSave(Row(db.post, p)).errors]
        ELSE labelled

\* The rows of a call's database written to the tables.
Written(db) ==
    /\ post' = db.post
    /\ section' = db.section
    /\ tag' = db.tag
    /\ tagged' = db.tagged
    /\ seq' = db.seq

\* The rows a call may write stay within the bounds.
Bounded(db) ==
    /\ \A t \in {"Post", "Section", "Tag"} : db.seq[t] <= MaxPk + 1
    /\ \A s \in db.section : s.ordering <= MaxOrder

\* PATCH of a post of the requester with a sections list and a tags list
\* (PostViewSet's queryset holds the requester's posts): PostSerializer.update
PostSerializerUpdate(u, pk, orders, names) ==
    /\ \E p \in post : p.pk = pk /\ p.user = u
    /\ LET db == assign_parameters(Database, u, pk, orders, names)
       IN  /\ Bounded(db)
           /\ Written(db)
           /\ last' = Outcome("update", "Post", db.errors, FALSE,
                              <<db.section, db.tag, db.tagged>> # <<section, tag, tagged>>)
    /\ UNCHANGED <<category, author, comment>>

\* POST of a post with a sections list and a tags list: PostSerializer.create
\* (Post.objects.create, then _assign_parameters on the new post)
PostSerializerCreate(u, n, s, orders, names) ==
    LET pk == seq["Post"]
        saved == PostSave([pk |-> None, user |-> u, name |-> n, slug |-> s,
                           category |-> None, author |-> None])
        created == [Database EXCEPT !.post = @ \cup {[saved.row EXCEPT !.pk = pk]},
                                    !.seq = [@ EXCEPT !["Post"] = pk + 1]]
        db == IF saved.errors = {}
              THEN assign_parameters(created, u, pk, orders, names)
              ELSE [Database EXCEPT !.errors = saved.errors]
    IN  /\ pk <= MaxPk
        /\ Bounded(db)
        /\ Written(db)
        /\ last' = Outcome("create", "Post", db.errors, FALSE, saved.errors = {})
        /\ UNCHANGED <<category, author, comment>>

(* --------------------- the posts of two accounts ------------------------- *)

\* The two posts of the first account and a post of the second account with
\* the slug of one of them (Post.clean looks a slug up within the user).
ThreePosts ==
    TwoPosts \cup
    { [pk |-> 3, user |-> "u2", name |-> <<"b", "!">>, slug |-> <<"b">>,
       category |-> None, author |-> None] }

InitBlog ==
    /\ category = {}
    /\ author = {}
    /\ post = ThreePosts
    /\ section = {}
    /\ seq = [t \in Tables |-> IF t = "Post" THEN 4 ELSE 1]
    /\ last = Outcome("create", "Post", {}, FALSE, TRUE)
    /\ handed = [u \in Users |-> <<>>]
    /\ freed = [u \in Users |-> None]
    /\ steps = <<>>
    /\ flight = [w \in Workers |-> Idle]
    /\ tag = {}
    /\ tagged = {}
    /\ comment = {}

\* Requests on tags: the tag endpoint, and a post's tags list.
CreateTag ==
    /\ \E u \in Users, n \in TagNames : TagCreate(u, n)
    /\ UNCHANGED <<handed, freed, steps, flight>>

RenameTag ==
    /\ \E t \in tag, n \in TagNames : TagUpdate(t.user, t.pk, n)
    /\ UNCHANGED <<handed, freed, steps, flight>>

DeleteTag ==
    /\ \E t \in tag : TagDelete(t.user, t.pk)
    /\ UNCHANGED <<handed, freed, steps, flight>>

TagPost ==
    /\ \E p \in post, names \in TagLists : PostSerializerUpdate(p.user, p.pk, <<>>, names)
    /\ UNCHANGED <<handed, freed, steps, flight>>

NextTags == CreateTag \/ RenameTag \/ DeleteTag \/ TagPost

SpecTags == InitBlog /\ [][NextTags]_vars

(* --------------- posts written with their sections lists ----------------- *)

\* Requests on posts that carry a sections list: a PATCH by the post's owner,
\* a POST by either account.
UpdateSections ==
    /\ \E p \in post, orders \in SectionLists :
          PostSerializerUpdate(p.user, p.pk, orders, <<>>)
    /\ UNCHANGED <<handed, freed, steps, flight>>

CreateWithSections ==
    /\ \E u \in Users, n \in Names, orders \in SectionLists :
          PostSerializerCreate(u, n, <<>>, orders, <<>>)
    /\ UNCHANGED <<handed, freed, steps, flight>>

NextPosts == UpdateSections \/ CreateWithSections

SpecPosts == InitSection /\ [][NextPosts]_vars

(* ------------- comments, and the post's section actions ------------------ *)

\* A key left out of the request's data.
Keep == -2

\* The slugs the posts' titles derive to.
Slugs == {slugify(n) : n \in Names}

\* The is_visible key of a comment request.
VisibleInputs == {"omitted", "true", "false"}

\* get_object_or_404: the one row of the queryset; Http404 when it has none;
\* MultipleObjectsReturned (not caught) when it has several.
get_object_or_404(qs) ==
    [obj |-> IF Cardinality(qs) = 1 THEN CHOOSE r \in qs : TRUE ELSE [pk |-> None],
     errors |-> IF qs = {}
                THEN {"Http404"}
                ELSE IF Cardinality(qs) > 1 THEN {"MultipleObjectsReturned"} ELSE {}]

\* get_object_or_404(Post, slug=slug): the posts of every user are searched.
get_post(slug) == get_object_or_404({p \in post : p.slug = slug})

\* A request that ended with an exception before it wrote anything.
Failed(op, table, errors) ==
    /\ last' = Outcome(op, table, errors, FALSE, FALSE)
    /\ UNCHANGED <<category, author, post, section, seq, tag, tagged, comment>>

\* PostViewSet.update_section, requested by u: the post by its slug, its
\* section by the ordering in the URL, the request's ordering key set (when
\* there is one), then save().
update_section(u, slug, sect_ord, o) ==
    LET found == get_post(slug)
        sect == get_object_or_404({s \in section : s.post = found.obj.pk
                                                     /\ s.ordering = sect_ord})
    IN  IF found.errors # {}
        THEN Failed("update", "Section", found.errors)
        ELSE IF sect.errors # {}
             THEN Failed("update", "Section", sect.errors)
             ELSE /\ SectionUpdate(sect.obj.pk, IF o = Keep THEN sect.obj.ordering ELSE o)
                  /\ UNCHANGED <<tag, tagged, comment>>

\* PostViewSet.delete_section, requested by u
delete_section(u, slug, sect_ord) ==
    LET found == get_post(slug)
        sect == get_object_or_404({s \in section : s.post = found.obj.pk
                                                     /\ s.ordering = sect_ord})
    IN  IF found.errors # {}
        THEN Failed("delete", "Section", found.errors)
        ELSE IF sect.errors # {}
             THEN Failed("delete", "Section", sect.errors)
             ELSE /\ SectionDelete(sect.obj.pk)
                  /\ UNCHANGED <<tag, tagged, comment>>

\* Comment.objects.create / comment.save(): the row written as it is.
CommentSave(instance) == instance

\* CommentSerializer.create, with the user perform_create passes
CommentCreate(u, slug, visible) ==
    LET pk == seq["Comment"]
        found == get_post(slug)
    IN  /\ pk <= MaxPk
        /\ IF found.errors # {}
           THEN Failed("create", "Comment", found.errors)
           ELSE /\ comment' = comment \cup
                       {CommentSave([pk |-> pk, user |-> u, post |-> found.obj.pk,
                                     is_visible |-> (visible = "true")])}
                /\ seq' = [seq EXCEPT !["Comment"] = pk + 1]
                /\ last' = Outcome("create", "Comment", {}, FALSE, TRUE)
                /\ UNCHANGED <<category, author, post, section, tag, tagged>>

\* CommentSerializer.update on a comment of the requester (CommentViewSet's
\* queryset holds the requester's comments); an empty slug: no post_slug key.
CommentUpdate(u, pk, slug, visible) ==
    /\ \E c \in comment : c.pk = pk /\ c.user = u
    /\ LET old == Row(comment, pk)
           found == get_post(slug)
           moved == IF slug = <<>> THEN old ELSE [old EXCEPT !.post = found.obj.pk]
           new == IF visible = "omitted"
                  THEN moved
                  ELSE [moved EXCEPT !.is_visible = (visible = "true")]
       IN  IF slug # <<>> /\ found.errors # {}
           THEN Failed("update", "Comment", found.errors)
           ELSE /\ comment' = (comment \ {old}) \cup {CommentSave(new)}
                /\ last' = Outcome("update", "Comment", {}, FALSE, new # old)
                /\ UNCHANGED <<category, author, post, section, seq, tag, tagged>>

\* A comment of the requester deleted.
CommentDelete(u, pk) ==
    /\ \E c \in comment : c.pk = pk /\ c.user = u
    /\ comment' = {c \in comment : c.pk # pk}
    /\ last' = Outcome("delete", "Comment", {}, FALSE, TRUE)
    /\ UNCHANGED <<category, author, post, section, seq, tag, tagged>>

\* CommentViewSet.get_queryset with ?post=slug: the requester's comments on
\* the post the slug resolves to.
CommentList(u, slug) ==
    LET found == get_post(slug)
    IN  /\ last' = Outcome("list", "Comment", found.errors, FALSE, FALSE)
        /\ UNCHANGED <<category, author, post, section, seq, tag, tagged, comment>>

\* PostSerializer.get_visible_comments for a post the requester retrieves
get_visible_comments(u, p) ==
    {c \in comment : c.user = u /\ c.post = p.pk /\ c.is_visible}

\* Requests of the two accounts: sections written through their posts and
\* changed through the section actions while no comment is held, comments
\* while no section is held.
WriteSections ==
    /\ comment = {}
    /\ \E p \in post, orders \in SectionLists :
          PostSerializerUpdate(p.user, p.pk, orders, <<>>)
    /\ UNCHANGED <<handed, freed, steps, flight>>

UpdateSection ==
    /\ \E u \in Users, slug \in Slugs, n \in 1..MaxOrder, o \in {Keep} \cup OrderInputs :
          update_section(u, slug, n, o)
    /\ UNCHANGED <<handed, freed, steps, flight>>

RemoveSection ==
    /\ \E u \in Users, slug \in Slugs, n \in 1..MaxOrder : delete_section(u, slug, n)
    /\ UNCHANGED <<handed, freed, steps, flight>>

WriteComment ==
    /\ section = {}
    /\ \E u \in Users, slug \in Slugs, visible \in VisibleInputs :
          CommentCreate(u, slug, visible)
    /\ UNCHANGED <<handed, freed, steps, flight>>

EditComment ==
    /\ \E c \in comment, slug \in Slugs \cup {<<>>}, visible \in VisibleInputs :
          CommentUpdate(c.user, c.pk, slug, visible)
    /\ UNCHANGED <<handed, freed, steps, flight>>

DropComment ==
    /\ \E c \in comment : CommentDelete(c.user, c.pk)
    /\ UNCHANGED <<handed, freed, steps, flight>>

ListComments ==
    /\ \E u \in Users, slug \in Slugs : CommentList(u, slug)
    /\ UNCHANGED <<handed, freed, steps, flight>>

NextViews ==
    \/ WriteSections \/ UpdateSection \/ RemoveSection
    \/ WriteComment \/ EditComment \/ DropComment \/ ListComments

SpecViews == InitBlog /\ [][NextViews]_vars

(* ======================= the ordering field ============================== *)

Max(S) == CHOOSE x \in S : \A y \in S : y <= x

\* The latest call was a create that left the ordering to the field and wrote
\* its row.
AutoCreated(outcome) ==
    outcome.op = "create" /\ outcome.auto /\ outcome.errors = {}

\* C1: a create without explicit order in a scope (the owner of a category, the
\* post of a section) that holds no record persists the record with order 1,
\* whatever the other scopes hold.
C1_FirstInScopeIsOne ==
    [][AutoCreated(last') =>
         /\ \A r \in category' \ category :
               (~\E c \in category : c.user = r.user) => r.ordering = 1
         /\ \A r \in section' \ section :
               (~\E s \in section : s.post = r.post) => r.ordering = 1]_vars

\* C2: a create without explicit order in a scope that holds records persists
\* the record with the greatest order of that scope plus one, whatever the
\* other scopes hold.
C2_NextIsScopeMaxPlusOne ==
    [][AutoCreated(last') =>
         /\ \A r \in category' \ category :
               LET mine == {c.ordering : c \in {d \in category : d.user = r.user}}
               IN  mine # {} => r.ordering = Max(mine) + 1
         /\ \A r \in section' \ section :
               LET mine == {s.ordering : s \in {d \in section : d.post = r.post}}
               IN  mine # {} => r.ordering = Max(mine) + 1]_vars

\* C3: no two persisted categories of one owner hold the same order, after any
\* sequence of creates, updates and deletes with the order given or omitted.
C3_CategoryOrderUnique ==
    \A c \in category : \A d \in category :
        (c.pk # d.pk /\ c.user = d.user) => c.ordering # d.ordering

\* An owner holds two categories, the latest call having moved one of them.
C3_Witness ==
    /\ last.op = "update" /\ last.table = "Category" /\ last.changed
    /\ \E c \in category : \E d \in category : c.pk # d.pk /\ c.user = d.user

(* ===================== uniqueness within a scope ========================= *)

Store == <<category, author, post, section, seq>>

\* A row of the table, other than the one with primary key pk, in the scope
\* (column scope = value) holds the value in the column.
Held(objects, scope, value, column, held, pk) ==
    \E r \in objects : r[scope] = value /\ r[column] = held /\ r.pk # pk

\* The slug a request's record carries: the one supplied, or the one derived
\* from the name or title.
EffectiveSlug(n, s) == IF s = <<>> THEN slugify(n) ELSE s

\* C4: no two sections of one post hold the same order, under whatever user
\* they were saved, and a section create or update with an explicit order is
\* rejected exactly when another section of its post holds that order.
C4_SectionOrderScopedToPost ==
    [][/\ \A s \in section' : \A t \in section' :
             (s.pk # t.pk /\ s.post = t.post) => s.ordering # t.ordering
       /\ \A u \in Users, p \in post, o \in 0..MaxOrder :
             SectionCreate(u, p.pk, o) =>
                 (last'.errors # {} <=> Held(section, "post", p.pk, "ordering", o, None))
       /\ \A s \in section, o \in 0..MaxOrder :
             SectionUpdate(s.pk, o) =>
                 (last'.errors # {} <=> Held(section, "post", s.post, "ordering", o, s.pk))]_vars

\* C5: no two persisted categories, authors or posts of one owner hold the
\* same slug, after any sequence of creates, updates and deletes.
C5_SlugUnique ==
    \A objects \in {category, author, post} :
        \A r \in objects : \A q \in objects :
            (r.pk # q.pk /\ r.user = q.user) => r.slug # q.slug

\* An owner holds two posts, the latest call having changed one of them.
C5_Witness ==
    /\ last.op = "update" /\ last.table = "Post" /\ last.changed
    /\ \E r \in post : \E q \in post : r.pk # q.pk /\ r.user = q.user

\* C6: a create whose slug, supplied or derived, is held by a record of the
\* same type and owner fails with the slug error and leaves the store as it
\* was (no other slug is made up for it).
C6_DuplicateSlugRejected ==
    [][last'.op = "create" =>
         \A u \in Users, n \in Names, s \in SlugInputs :
            LET slug == EffectiveSlug(n, s)
            IN  /\ \A o \in OrderInputs :
                      (Held(category, "user", u, "slug", slug, None) /\ CategoryCreate(u, n, s, o))
                          => ("slug" \in last'.errors /\ UNCHANGED Store)
                /\ (Held(author, "user", u, "slug", slug, None) /\ AuthorCreate(u, n, s))
                      => ("slug" \in last'.errors /\ UNCHANGED Store)
                /\ (Held(post, "user", u, "slug", slug, None) /\ PostCreate(u, n, s, None, None))
                      => ("slug" \in last'.errors /\ UNCHANGED Store)]_vars

\* A category create was turned down for its slug.
C6_Witness ==
    /\ last.op = "create" /\ last.table = "Category" /\ last.errors = {"slug"}
    /\ category # {}

\* C7: a create whose slug (and, for a category, explicit order) is free among
\* the owner's own records succeeds whatever the other owners hold, and leaves
\* the other owners' records as they were.
C7_ScopesAreIsolated ==
    [][last'.op = "create" =>
         \A u \in Users, n \in Names, s \in {x \in SlugInputs : x = <<>> \/ validate_slug(x)} :
            LET slug == EffectiveSlug(n, s)
                Others(objects) == {r \in objects : r.user # u}
            IN  /\ \A o \in OrderInputs :
                      ( /\ ~Held(category, "user", u, "slug", slug, None)
                        /\ o # None => ~Held(category, "user", u, "ordering", o, None)
                        /\ CategoryCreate(u, n, s, o) )
                          => (last'.errors = {} /\ Others(category') = Others(category))
                /\ (~Held(author, "user", u, "slug", slug, None) /\ AuthorCreate(u, n, s))
                      => (last'.errors = {} /\ Others(author') = Others(author))
                /\ (~Held(post, "user", u, "slug", slug, None) /\ PostCreate(u, n, s, None, None))
                      => (last'.errors = {} /\ Others(post') = Others(post))]_vars

\* The category just created with an explicit order carries the slug and the
\* order of another owner's category.
C7_Witness ==
    /\ last.op = "create" /\ last.table = "Category" /\ last.errors = {} /\ ~last.auto
    /\ \E r \in category : \E q \in category :
          /\ r.pk = seq["Category"] - 1
          /\ q.user # r.user /\ q.slug = r.slug /\ q.ordering = r.ordering

\* C8: a create with an explicit order that a record of the same scope holds
\* fails with a validation error and leaves the store as it was.
C8_DuplicateOrderRejected ==
    [][last'.op = "create" =>
         /\ \A u \in Users, n \in Names, s \in SlugInputs, o \in 0..MaxOrder :
               (Held(category, "user", u, "ordering", o, None) /\ CategoryCreate(u, n, s, o))
                   => (last'.errors # {} /\ UNCHANGED Store)
         /\ \A u \in Users, p \in post, o \in 0..MaxOrder :
               (Held(section, "post", p.pk, "ordering", o, None) /\ SectionCreate(u, p.pk, o))
                   => (last'.errors # {} /\ UNCHANGED Store)]_vars

C10_HandedOutIncreasing ==
    \A u \in Users : \A i \in DOMAIN handed[u] : \A j \in DOMAIN handed[u] :
        i < j => handed[u][i].ordering < handed[u][j].ordering

\* C10, amended: an assigned order is greater than every order assigned
\* earlier in the scope to a record that is still persisted.
C10_SurvivorsIncreasing ==
    \A u \in Users : \A i \in DOMAIN handed[u] : \A j \in DOMAIN handed[u] :
        (i < j /\ \E c \in category : c.pk = handed[u][i].pk)
            => handed[u][i].ordering < handed[u][j].ordering

\* An owner was handed a second order after a category was deleted, the first
\* numbered category still being there.
C10_Witness ==
    /\ AutoCreated(last)
    /\ \E u \in Users :
          /\ Len(handed[u]) >= 2
          /\ \E c \in category : c.pk = handed[u][1].pk
    /\ Cardinality(category) < seq["Category"] - 1

(* ======================= orders after a delete =========================== *)

\* The order the scope's own records call for: 1 in a scope that holds none,
\* else the greatest order the scope holds plus 1.
NextInScope(orders) == IF orders = {} THEN 1 ELSE Max(orders) + 1

\* C11: after a category of an owner was deleted, were it the one with the
\* owner's greatest order or another, the owner's next create without explicit
\* order is assigned the greatest order among the owner's remaining categories
\* plus 1.
C11_AfterDeleteScopeMaxPlusOne ==
    [][AutoCreated(last') =>
         \A r \in category' \ category :
            freed[r.user] # None =>
               r.ordering = NextInScope({c.ordering : c \in {d \in category : d.user = r.user}})]_vars

(* ======================= the order of the steps ========================== *)

\* The positions of a step in the steps of the latest save().
At(step) == {i \in DOMAIN steps : steps[i] = step}

\* C12: a save() checks the slug, then fills a missing order, then checks the
\* order, then persists: an order that was assigned is checked for uniqueness
\* after it was assigned and before the row is written.
C12_AssignedBeforeChecked ==
    \A a \in At("assign_ordering") :
        /\ \A s \in At("check_slug") : s < a
        /\ \E c \in At("check_ordering") :
              a < c /\ \A p \in At("persist") : c < p

(* ======================= what an update recomputes ======================= *)

\* C13: the order is computed at creation only: no update of a category or of
\* a section, one that clears the order included, persists an order computed
\* by the field; the row keeps its order or takes the one the caller set.
C13_UpdateNeverAssigns ==
    [][(last'.op = "update" /\ last'.auto /\ last'.errors = {}) =>
         /\ \A r \in category' \ category :
               r.ordering \in {None} \cup {c.ordering : c \in {d \in category : d.pk = r.pk}}
         /\ \A r \in section' \ section :
               r.ordering \in {None} \cup {s.ordering : s \in {d \in section : d.pk = r.pk}}]_vars

\* C14: the slug is derived at creation only: an update that renames a
\* category, an author or a post and carries the row's slug leaves the slug as
\* it was, and an update that empties the slug does not derive it again from
\* the name or title.
C14_UpdateNeverDerives ==
    [][last'.op = "update" =>
         \A n \in Names :
            /\ \A c \in category :
                  /\ CategoryUpdate(c.pk, n, c.slug, c.ordering)
                        => \A r \in category' : r.pk = c.pk => r.slug = c.slug
                  /\ (CategoryUpdate(c.pk, n, <<>>, c.ordering) /\ last'.errors = {})
                        => \A r \in category' : r.pk = c.pk => r.slug \in {<<>>, c.slug}
            /\ \A a \in author :
                  /\ AuthorUpdate(a.pk, n, a.slug)
                        => \A r \in author' : r.pk = a.pk => r.slug = a.slug
                  /\ (AuthorUpdate(a.pk, n, <<>>) /\ last'.errors = {})
                        => \A r \in author' : r.pk = a.pk => r.slug \in {<<>>, a.slug}
            /\ \A p \in post :
                  /\ PostUpdate(p.pk, n, p.slug)
                        => \A r \in post' : r.pk = p.pk => r.slug = p.slug
                  /\ (PostUpdate(p.pk, n, <<>>) /\ last'.errors = {})
                        => \A r \in post' : r.pk = p.pk => r.slug \in {<<>>, p.slug}]_vars

(* ======================= orders the caller supplies ====================== *)

\* C15: a create with an explicit order that no category of the owner holds
\* persists exactly that order, and a create without order is numbered from the
\* orders the owner's categories hold, explicit ones included: the greatest of
\* them plus 1.
C15_ExplicitKeptAndCounted ==
    [][(last'.op = "create" /\ last'.errors = {}) =>
         /\ ~last'.auto =>
               \A u \in Users, n \in Names, o \in 0..MaxOrder :
                  ( /\ ~Held(category, "user", u, "ordering", o, None)
                    /\ CategoryCreate(u, n, <<>>, o) )
                      => \A r \in category' \ category : r.ordering = o
         /\ last'.auto =>
               \A r \in category' \ category :
                  LET held == {c.ordering : c \in {d \in category : d.user = r.user}}
                  IN  held # {} => r.ordering = Max(held) + 1]_vars

(* ======================= the orders persisted ============================ *)

\* C19: every order persisted for a category or a section, assigned or
\* supplied, is an integer of at least 1.
C19_OrdersAtLeastOne ==
    /\ \A c \in category : c.ordering >= 1
    /\ \A s \in section : s.ordering >= 1

(* ======================= concurrent saves ================================ *)

\* The categories of an owner.
Of(u) == {c \in category : c.user = u}

\* C16: when two creates without explicit order in one scope both read the
\* same greatest order before either row is written, the second write fails:
\* in no state of the interleaved system do two categories of an owner hold
\* the same order.
C16_RaceKeepsOrdersUnique ==
    \A u \in Users : Cardinality({c.ordering : c \in Of(u)}) = Cardinality(Of(u))

\* C17: when two creates with the same slug for one owner both pass their
\* uniqueness checks before either row is written, at most one of the rows is
\* persisted: in no state of the interleaved system do two categories of an
\* owner hold the same slug.
C17_RaceKeepsSlugsUnique ==
    \A u \in Users : Cardinality({c.slug : c \in Of(u)}) = Cardinality(Of(u))

(* ======================= rejected saves ================================== *)

\* The errors of the uniqueness checks of clean().
Duplicate == {"slug", "ordering"}

C20_OmittedOrderAccepted ==
    [][(last'.op = "create" /\ last'.auto) =>
         /\ "ordering" \notin last'.errors
         /\ \A u \in Users, n \in Names :
               ( /\ ~Held(category, "user", u, "slug", EffectiveSlug(n, <<>>), None)
                 /\ CategoryCreate(u, n, <<>>, None) )
                   => (last'.errors = {} /\ Cardinality(category') = Cardinality(category) + 1)
         /\ \A u \in Users, p \in post :
               SectionCreate(u, p.pk, None)
                   => (last'.errors = {} /\ Cardinality(section') = Cardinality(section) + 1)]_vars

\* A category was created without order by an owner who holds another one,
\* whose order an explicit create would have collided with.
C20_Witness ==
    /\ AutoCreated(last) /\ last.table = "Category"
    /\ \E c \in category : \E d \in category :
          c.pk # d.pk /\ c.user = d.user /\ c.ordering >= 1 /\ d.ordering > c.ordering


(* ================= a fresh order exceeds the scope's orders ============== *)

\* C25: a record created without an explicit order gets an order strictly
\* greater than every order held in its scope (the owner's categories, the
\* post's sections) when it is created, so it collides with none of them,
\* whatever gaps deletes and explicit orders have left.
C25_FreshOrderExceedsScope ==
    [][AutoCreated(last') =>
         /\ \A r \in category' \ category :
               \A c \in category : c.user = r.user => c.ordering < r.ordering
         /\ \A r \in section' \ section :
               \A s \in section : s.post = r.post => s.ordering < r.ordering]_vars

\* An owner's category numbered by the field after one of the owner's two
\* categories was deleted: the store holds two categories, the third primary
\* key was handed out, and the new order is above the remaining one's.
C25_Witness ==
    /\ AutoCreated(last)
    /\ last.table = "Category"
    /\ Cardinality(category) = 2
    /\ \E r \in category :
          /\ r.pk = seq["Category"] - 1
          /\ r.pk = 3
          /\ \E c \in category : c.pk # r.pk /\ c.user = r.user /\ c.ordering < r.ordering


(* ================= which uniqueness error is reported ==================== *)

\* C27: in every reachable state, Category.save of a new or an existing
\* category of an owner reports the uniqueness error of the slug when the slug
\* (supplied or derived) is held by another category of the owner, whether or
\* not the explicit order is held too; it reports the error of the order when
\* only the order is held; and neither when neither is.
C27_SlugErrorFirst ==
    \A u \in Users, n \in Names, s \in SlugInputs, o \in OrderInputs :
        LET slug == EffectiveSlug(n, s)
            Reported(pk) ==
                IF Held(category, "user", u, "slug", slug, pk)
                THEN {"slug"}
                ELSE IF o # None /\ Held(category, "user", u, "ordering", o, pk)
                     THEN {"ordering"}
                     ELSE {}
            Request(pk) == [pk |-> pk, user |-> u, name |-> n, slug |-> s, ordering |-> o]
        IN  /\ CategorySave(Request(None)).errors \cap Duplicate = Reported(None)
            /\ \A c \in category :
                  c.user = u =>
                     CategorySave(Request(c.pk)).errors \cap Duplicate = Reported(c.pk)

\* A create with the explicit order 1 was turned down for its slug while the
\* only category, which the requester must own, holds order 1 as well.
C27_Witness ==
    /\ last.op = "create" /\ last.table = "Category" /\ ~last.auto
    /\ last.errors \cap Duplicate = {"slug"}
    /\ Cardinality(category) = 1
    /\ \A c \in category : c.ordering = 1


(* ================================ tags =================================== *)

\* C21: no two tags of one owner hold the same name, whether they were made
\* through the tag endpoint or through a post's tags list.
C21_TagNamesUnique ==
    \A s \in tag : \A t \in tag :
        (s.pk # t.pk /\ s.user = t.user) => s.name # t.name

\* The values of a sequence.
Range(list) == {list[i] : i \in DOMAIN list}

\* C24: a post update with a non-empty tags list leaves the post linked to
\* exactly one tag of the requester for each name listed and to no other tag;
\* no tag is deleted; no tag is made for a name the requester already holds a
\* tag of; and the links of the other posts stay as they were.
C24_TagsReplacedAndReused ==
    [][(last'.op = "update" /\ last'.table = "Post") =>
         \A p \in post, names \in TagLists :
            PostSerializerUpdate(p.user, p.pk, <<>>, names) =>
               LET linked == {t \in tag' : [tag |-> t.pk, post |-> p.pk] \in tagged'}
               IN  /\ {t.name : t \in linked} = Range(names)
                   /\ Cardinality(linked) = Cardinality(Range(names))
                   /\ \A t \in linked : t.user = p.user
                   /\ tag \subseteq tag'
                   /\ \A t \in tag' \ tag :
                         ~\E old \in tag : old.user = t.user /\ old.name = t.name
                   /\ {l \in tagged' : l.post # p.pk} = {l \in tagged : l.post # p.pk}]_vars


(* ===================== a post's sections list ============================ *)

\* C23: in every reachable state, a post update by the owner with a non-empty
\* sections list whose orders are explicit and pairwise distinct succeeds,
\* leaves the post with exactly the submitted sections, and leaves the
\* sections of every other post as they were.
C23_DistinctSectionsAccepted ==
    [][(last'.op = "update" /\ last'.table = "Post") =>
         \A p \in post, orders \in SectionLists :
            ( /\ \A i \in DOMAIN orders : orders[i] # None
              /\ Cardinality(Range(orders)) = Len(orders)
              /\ PostSerializerUpdate(p.user, p.pk, orders, <<>>) )
            => /\ last'.errors = {}
               /\ {s.ordering : s \in {t \in section' : t.post = p.pk}} = Range(orders)
               /\ Cardinality({t \in section' : t.post = p.pk}) = Len(orders)
               /\ {t \in section' : t.post # p.pk} = {t \in section : t.post # p.pk}]_vars

\* C26: a post create or update with a sections list is all or nothing: when
\* the request is rejected, no post row and none of the submitted sections is
\* persisted, and the post's previous sections are still there.
C26_RejectedPostLeavesStore ==
    [][(last'.table = "Post" /\ last'.errors # {}) =>
         (post' = post /\ section' = section)]_vars


(* ================= comments and the section actions ====================== *)

\* C22: a post retrieved by its owner shows as its comments exactly the
\* comments of the post whose is_visible flag is true (a comment created
\* without the flag is hidden until an update sets the flag, and hidden again
\* once an update clears it).
C22_VisibleCommentsShown ==
    \A p \in post :
        get_visible_comments(p.user, p) = {c \in comment : c.post = p.pk /\ c.is_visible}

\* C28: delete_section on a post of the requester that holds one section with
\* the order removes that section and no other; update_section on it changes
\* that section alone, in nothing but the ordering supplied, and is rejected,
\* leaving the sections as they were, when another section of the post holds
\* the ordering supplied.
C28_SectionActionsHitOneSection ==
    [][last'.table = "Section" =>
         \A p \in post, n \in 1..MaxOrder :
            LET held == {s \in section : s.post = p.pk /\ s.ordering = n}
            IN  Cardinality(held) = 1 =>
                   /\ delete_section(p.user, p.slug, n) => section' = section \ held
                   /\ \A o \in {Keep} \cup OrderInputs :
                         update_section(p.user, p.slug, n, o) =>
                            LET old == CHOOSE s \in held : TRUE
                                others == section \ held
                            IN  /\ section' \ held \subseteq others \cup
                                      {[old EXCEPT !.ordering = x] : x \in 0..(MaxOrder + 1)}
                                /\ others \subseteq section'
                                /\ Cardinality(section') = Cardinality(section)
                                /\ o = Keep => section' = section
                                /\ (\E s \in others : s.post = p.pk /\ s.ordering = o)
                                       => (last'.errors # {} /\ section' = section)
                                /\ (o \in 0..MaxOrder /\ last'.errors = {})
                                       => [old EXCEPT !.ordering = o] \in section']_vars

\* The rows of a table that are not the user's.
NotOf(objects, u) == {r \in objects : r.user # u}

\* C29: a request of an account (the section actions, the comment endpoints)
\* leaves the posts, sections, tags and comments of the other accounts as
\* they were, and files a comment under a post of the account only.
C29_OtherOwnersUntouched ==
    [][\A u \in Users :
          ( \/ \E slug \in Slugs, n \in 1..MaxOrder :
                  \/ delete_section(u, slug, n)
                  \/ \E o \in {Keep} \cup OrderInputs : update_section(u, slug, n, o)
            \/ \E slug \in Slugs, visible \in VisibleInputs : CommentCreate(u, slug, visible)
            \/ \E c \in comment, slug \in Slugs \cup {<<>>}, visible \in VisibleInputs :
                  CommentUpdate(u, c.pk, slug, visible)
            \/ \E c \in comment : CommentDelete(u, c.pk) )
          => /\ NotOf(post', u) = NotOf(post, u)
             /\ NotOf(section', u) = NotOf(section, u)
             /\ NotOf(tag', u) = NotOf(tag, u)
             /\ NotOf(comment', u) = NotOf(comment, u)
             /\ \A c \in comment' \ comment : Row(post, c.post).user = c.user]_vars

\* C30: a section action, a comment create or update, or a comments list that
\* names the slug of a post of the requester resolves the slug to that post,
\* whether or not another account holds a post with the slug.
C30_SlugResolvesToOwnPost ==
    [][\A p \in post :
          ( \/ \E n \in 1..MaxOrder :
                  \/ delete_section(p.user, p.slug, n)
                  \/ \E o \in {Keep} \cup OrderInputs : update_section(p.user, p.slug, n, o)
            \/ \E visible \in VisibleInputs : CommentCreate(p.user, p.slug, visible)
            \/ \E c \in comment, visible \in VisibleInputs :
                  CommentUpdate(p.user, c.pk, p.slug, visible)
            \/ CommentList(p.user, p.slug) )
          => get_post(p.slug) = [obj |-> p, errors |-> {}]]_vars

====
